---------------------------- MODULE Spec2Model ----------------------------
(***************************************************************************)
(* State-machine model of src/main.js: the interactive scene engine of the *)
(* construction-stage viewer (annotation hover/select state, the camera    *)
(* tween, the pan / zoom orbit constraints, pointer routing and the stage  *)
(* loader).                                                                *)
(*                                                                         *)
(* Numbers.  JavaScript doubles are modelled in fixed point.  Annotation   *)
(* scale and opacity are counted in units of 1/10000 (so 1.5 is 15000 and  *)
(* the 0.001 threshold of animate() is 10); world coordinates are integers *)
(* of the scene's length unit; time is in milliseconds.  Every arithmetic  *)
(* result is rounded to the nearest unit, as a double is rounded to the    *)
(* nearest representable value.                                            *)
(***************************************************************************)
EXTENDS Integers, Naturals, Sequences, FiniteSets, TLC

VARIABLES
    viewer,                  \* the GaussianSplats3D viewer: camera + controls
    isLoading,               \* re-entrancy guard of loadStage
    loadPc,                  \* where the in-flight loadStage is suspended
    loadIndex,               \* the stage index of the in-flight loadStage
    isPanLockActive,
    currentAnnotations,      \* sequence of annotation groups
    hoveredAnnotation,       \* 0 = null, i > 0 = currentAnnotations[i], -1 = a group of a replaced list
    currentAnnotationsData,  \* the data the menu rows were built from
    selectedAnnotationIndex, \* 1-based; 0 stands for the source's -1 (none)
    menuOpen,                \* annotationsMenu has class 'show'
    camMove,                 \* the camera tween: camMoveActive, camMoveStart, camMoveDuration,
                             \* camStartPos, camStartTarget, camTargetPos, camTargetTarget
    zoomLockEnabled, zoomMinDistance, zoomMaxDistance,
    devOverlayVisible,
    movableDot,              \* [exists, visible, position]
    isDraggingDot,
    dragPlane,               \* the plane of the running drag: [normal, point]
    now,                     \* performance.now()
    frameDue                 \* requestAnimationFrame has a callback pending for this timestamp

annoVars == <<currentAnnotations, hoveredAnnotation, currentAnnotationsData,
              selectedAnnotationIndex, menuOpen>>
zoomVars == <<zoomLockEnabled, zoomMinDistance, zoomMaxDistance>>
dotVars == <<devOverlayVisible, movableDot, isDraggingDot, dragPlane>>
loadVars == <<isLoading, loadPc, loadIndex>>
clockVars == <<now, frameDue>>
vars == <<viewer, isPanLockActive, annoVars, camMove, zoomVars, dotVars,
          loadVars, clockVars>>

-----------------------------------------------------------------------------
(* Bounds of the model *)

\* number of frame periods one default camera move is divided into
FramesPerMove == 2
\* the clock stops after this many frame periods
MaxClockSteps == 2
\* pointer rays are taken to hit within this distance of the origin, per axis
SceneRadius == 8
\* pointer and menu events address annotation indices up to this one
MaxAnnotations == 2

-----------------------------------------------------------------------------
(* Program constants, in the fixed-point units described above *)

ScaleIdle == 10000
OpacityIdle == 100
ScaleHovered == 15000
OpacityHovered == 8000
ScaleSelected == 20000
OpacitySelected == 10000
Epsilon == 10
LerpDen == 10
DefaultDuration == 1500
DefaultZoomMin == 2
DefaultZoomMax == 50
Infinity == 1000000

IdleTier == <<ScaleIdle, OpacityIdle>>
HoveredTier == <<ScaleHovered, OpacityHovered>>
SelectedTier == <<ScaleSelected, OpacitySelected>>

TimeStep == DefaultDuration \div FramesPerMove
MaxTime == MaxClockSteps * TimeStep


-----------------------------------------------------------------------------
(* Stage and annotation configuration (the contents of stages.json and of  *)
(* the per-stage annotation files, which the program only reads)           *)

NoVec == <<0, 0, 0>>

\* annotation records {pos, title, desc, cameraPos?, cameraLookAt?}; hasHint
\* stands for "data.cameraPos && data.cameraLookAt"
AnnotationsA ==
    << [hasHint |-> TRUE,  cameraPos |-> <<0, 0, 5>>,  cameraLookAt |-> <<1, 0, 0>>],
       [hasHint |-> TRUE,  cameraPos |-> <<3, -2, 4>>, cameraLookAt |-> <<1, 2, 0>>] >>

AnnotationsC ==
    << [hasHint |-> FALSE, cameraPos |-> NoVec, cameraLookAt |-> NoVec] >>

\* stage descriptors; hasZoom stands for
\* "stage.minZoom !== undefined && stage.maxZoom !== undefined",
\* hasAnnotations for "stage.annotationsUrl" being set
constructionStages ==
    << [initialCameraPosition |-> <<0, -4, 8>>, initialCameraLookAt |-> <<0, 0, 0>>,
        panLock |-> TRUE, rotationLock |-> TRUE,
        hasZoom |-> TRUE, minZoom |-> 5, maxZoom |-> 20,
        hasAnnotations |-> TRUE, annotations |-> AnnotationsA],
       [initialCameraPosition |-> <<6, -3, 0>>, initialCameraLookAt |-> <<0, 3, 0>>,
        panLock |-> FALSE, rotationLock |-> FALSE,
        hasZoom |-> FALSE, minZoom |-> 0, maxZoom |-> 0,
        hasAnnotations |-> FALSE, annotations |-> << >>],
       [initialCameraPosition |-> <<2, -6, 2>>, initialCameraLookAt |-> <<0, 1, 0>>,
        panLock |-> TRUE, rotationLock |-> FALSE,
        hasZoom |-> FALSE, minZoom |-> 0, maxZoom |-> 0,
        hasAnnotations |-> TRUE, annotations |-> AnnotationsC] >>

StageIndices == 1..Len(constructionStages)

\* positions typed into the dev inputs
DotInputs == { <<1, 0, 0>> }

\* arguments with which setZoomLock is called
ZoomLockArgs == { <<1, 100>> }

-----------------------------------------------------------------------------
(* Geometry utilities *)

\* n / d rounded to the nearest integer (d > 0)
Round(n, d) == (2 * n + d) \div (2 * d)

RECURSIVE Gcd(_, _)
Gcd(a, b) == IF b = 0 THEN a ELSE Gcd(b, a % b)

Abs(x) == IF x < 0 THEN -x ELSE x

Min(a, b) == IF a < b THEN a ELSE b

Sub(a, b) == <<a[1] - b[1], a[2] - b[2], a[3] - b[3]>>

DotProduct(a, b) == a[1] * b[1] + a[2] * b[2] + a[3] * b[3]

\* new THREE.Plane(): normal (1, 0, 0) through the origin
NoPlane == [normal |-> <<1, 0, 0>>, point |-> NoVec]

\* Ray.intersectPlane(plane, target) for the ray from origin along dir: no hit
\* when the ray is parallel to the plane (and not in it) or the plane lies behind
\* the origin, else the point origin + t * dir with
\* t = normal . (point - origin) / normal . dir; the normal's length cancels
IntersectPlane(origin, dir, plane) ==
    LET denominator == DotProduct(plane.normal, dir)
        numerator == DotProduct(plane.normal, Sub(plane.point, origin))
        n == IF denominator < 0 THEN -numerator ELSE numerator
        d == Abs(denominator)
    IN  IF denominator = 0
        THEN [hit |-> numerator = 0, point |-> origin]
        ELSE IF n < 0
        THEN [hit |-> FALSE, point |-> origin]
        ELSE [hit |-> TRUE,
              point |-> <<origin[1] + Round(dir[1] * n, d),
                          origin[2] + Round(dir[2] * n, d),
                          origin[3] + Round(dir[3] * n, d)>>]

\* directions of the pointer rays tried
RayDirs == { <<1, 0, 0>>, <<0, 0, -1>>, <<0, 1, -1>>, <<0, 0, 1>> }

InScene(p) == \A k \in 1..3 : Abs(p[k]) <= SceneRadius

\* t = Math.min(1, (now - camMoveStart) / camMoveDuration) as a reduced
\* fraction <<p, q>>
TweenT(elapsed, duration) ==
    LET p == Min(elapsed, duration)
        g == Gcd(p, duration)
    IN  <<p \div g, duration \div g>>

\* THREE.MathUtils.smoothstep(t, 0, 1) = t * t * (3 - 2 * t), clamped to
\* 0 for t <= 0 and to 1 for t >= 1, as a fraction <<num, den>>
Smoothstep(t) ==
    LET p == t[1]
        q == t[2]
    IN  IF p <= 0 THEN <<0, 1>>
        ELSE IF p >= q THEN <<1, 1>>
        ELSE <<p * p * (3 * q - 2 * p), q * q * q>>

\* Vector3.lerpVectors(v1, v2, alpha): v1 + (v2 - v1) * alpha per component
LerpVectors(v1, v2, alpha) ==
    << v1[1] + Round((v2[1] - v1[1]) * alpha[1], alpha[2]),
       v1[2] + Round((v2[2] - v1[2]) * alpha[1], alpha[2]),
       v1[3] + Round((v2[3] - v1[3]) * alpha[1], alpha[2]) >>

\* THREE.MathUtils.lerp(x, y, 0.1) = (1 - 0.1) * x + 0.1 * y
Lerp(x, y) == Round((LerpDen - 1) * x + y, LerpDen)

-----------------------------------------------------------------------------
(* The viewer and the camera tween *)

\* "viewer" before the first loadStage (undefined)
NoViewer ==
    [exists |-> FALSE, avail |-> FALSE, position |-> NoVec, target |-> NoVec,
     enabled |-> FALSE, minDistance |-> 0, maxDistance |-> Infinity,
     maxPolarAngle |-> "PI"]

\* new GaussianSplats3D.Viewer({... initialCameraPosition, initialCameraLookAt ...}):
\* a camera and fresh orbit controls (enabled, distance 0..Infinity, polar angle PI)
NewViewer(stage) ==
    [exists |-> TRUE, avail |-> TRUE,
     position |-> stage.initialCameraPosition, target |-> stage.initialCameraLookAt,
     enabled |-> TRUE, minDistance |-> 0, maxDistance |-> Infinity,
     maxPolarAngle |-> "PI"]

\* camera.getWorldDirection(): from the camera to the controls' target (the
\* length does not matter to the plane)
CameraDirection(v) == Sub(v.target, v.position)

NoCamMove ==
    [active |-> FALSE, start |-> 0, duration |-> DefaultDuration,
     startPos |-> NoVec, startTarget |-> NoVec,
     targetPos |-> NoVec, targetTarget |-> NoVec]

\* (a slip: a request made while a tween is in flight is dropped)
MoveCameraToUnlessActive(cm, v, positionVec, lookAtVec, duration, t) ==
    IF ~v.avail \/ cm.active THEN cm
    ELSE [active |-> TRUE, start |-> t, duration |-> duration,
          startPos |-> v.position, startTarget |-> v.target,
          targetPos |-> positionVec, targetTarget |-> lookAtVec]

\* (a slip: moveCameraTo without its availability guard)
MoveCameraToUnguarded(cm, v, positionVec, lookAtVec, duration, t) ==
    [active |-> TRUE, start |-> t, duration |-> duration,
     startPos |-> v.position, startTarget |-> v.target,
     targetPos |-> positionVec, targetTarget |-> lookAtVec]

\* moveCameraTo(positionVec, lookAtVec, duration = 1500): the tween after the call
MoveCameraTo(cm, v, positionVec, lookAtVec, duration, t) ==
    IF ~v.avail THEN cm
    ELSE [active |-> TRUE, start |-> t, duration |-> duration,
          startPos |-> v.position, startTarget |-> v.target,
          targetPos |-> positionVec, targetTarget |-> lookAtVec]

-----------------------------------------------------------------------------
(* Annotations *)

\* the group addAnnotations builds: scale 1, fill opacity 0.01, idle targets
NewAnnotation ==
    [targetScale |-> ScaleIdle, targetOpacity |-> OpacityIdle,
     scale |-> ScaleIdle, opacity |-> OpacityIdle]

\* (a slip: the opacity target is forgotten)
SetTargetScaleOnly(a, tier) == [a EXCEPT !.targetScale = tier[1]]

SetTarget(a, tier) == [a EXCEPT !.targetScale = tier[1], !.targetOpacity = tier[2]]

\* (a slip: the other annotations are not reset)
ResetTargetsSkipped(annos) == annos

\* currentAnnotations.forEach(a => { a.userData.targetScale = 1.0; a.userData.targetOpacity = 0.01 })
ResetTargets(annos) == [k \in DOMAIN annos |-> SetTarget(annos[k], IdleTier)]

\* (a slip: highlightAnnotation never asks for the camera move)
HighlightAnnotationNoCamera(annos, data, cm, v, index, t) ==
    LET reset == ResetTargets(annos)
    IN  IF index \in DOMAIN annos
        THEN [annotations |-> [reset EXCEPT ![index] = SetTarget(@, SelectedTier)],
              camMove |-> cm]
        ELSE [annotations |-> reset, camMove |-> cm]

\* highlightAnnotation(index): the annotation list and the tween after the call
\* (selectedAnnotationIndex becomes index in every case)
HighlightAnnotation(annos, data, cm, v, index, t) ==
    LET reset == ResetTargets(annos)
    IN  IF index \in DOMAIN annos
        THEN [annotations |-> [reset EXCEPT ![index] = SetTarget(@, SelectedTier)],
              camMove |-> IF index \in DOMAIN data /\ data[index].hasHint
                          THEN MoveCameraTo(cm, v, data[index].cameraPos,
                                            data[index].cameraLookAt, DefaultDuration, t)
                          ELSE cm]
        ELSE [annotations |-> reset, camMove |-> cm]

-----------------------------------------------------------------------------
(* animate(): one frame *)

\* (a slip: the tween is switched off before its last pose is written)
TweenStepSkipsLastPose(v, cm, t) ==
    IF cm.active /\ v.avail
    THEN LET tt == TweenT(t - cm.start, cm.duration)
             easedT == Smoothstep(tt)
         IN  IF tt[1] >= tt[2]
             THEN [viewer |-> v, camMove |-> [cm EXCEPT !.active = FALSE]]
             ELSE [viewer |-> [v EXCEPT !.position = LerpVectors(cm.startPos, cm.targetPos, easedT),
                                        !.target = LerpVectors(cm.startTarget, cm.targetTarget, easedT)],
                   camMove |-> cm]
    ELSE [viewer |-> v, camMove |-> cm]

\* the camera move step: the viewer and the tween after it
TweenStep(v, cm, t) ==
    IF cm.active /\ v.avail
    THEN LET tt == TweenT(t - cm.start, cm.duration)
             easedT == Smoothstep(tt)
         IN  [viewer |-> [v EXCEPT !.position = LerpVectors(cm.startPos, cm.targetPos, easedT),
                                   !.target = LerpVectors(cm.startTarget, cm.targetTarget, easedT)],
              camMove |-> IF tt[1] >= tt[2] THEN [cm EXCEPT !.active = FALSE] ELSE cm]
    ELSE [viewer |-> v, camMove |-> cm]

\* (a slip: only the target is moved, not the camera)
PanLockPassTargetOnly(v, panLock) ==
    IF panLock /\ v.avail /\ v.target[2] > 0
    THEN [v EXCEPT !.target[2] = 0]
    ELSE v

\* the pan lock: the viewer after the constraint pass
PanLockPass(v, panLock) ==
    IF panLock /\ v.avail /\ v.target[2] > 0
    THEN LET deltaY == v.target[2]
         IN  [v EXCEPT !.position[2] = @ - deltaY, !.target[2] = @ - deltaY]
    ELSE v

\* (a slip: the smoothing without its epsilon test)
AnimateAnnotationNoEpsilon(a) ==
    [a EXCEPT !.scale = Lerp(@, a.targetScale),
              !.opacity = Lerp(@, a.targetOpacity)]

\* the smoothing of one annotation's scale and fill opacity
AnimateAnnotation(a) ==
    [a EXCEPT !.scale = IF Abs(@ - a.targetScale) > Epsilon
                        THEN Lerp(@, a.targetScale) ELSE @,
              !.opacity = IF Abs(@ - a.targetOpacity) > Epsilon
                          THEN Lerp(@, a.targetOpacity) ELSE @]

\* (a slip: the pan lock pass runs before the camera move step)
AnimatePanLockFirst ==
    /\ frameDue
    /\ LET r == TweenStep(PanLockPass(viewer, isPanLockActive), camMove, now)
           v == r.viewer
       IN  /\ viewer' = v
           /\ camMove' = r.camMove
           /\ currentAnnotations' =
                  IF v.avail
                  THEN [k \in DOMAIN currentAnnotations |->
                            AnimateAnnotation(currentAnnotations[k])]
                  ELSE currentAnnotations
    /\ frameDue' = FALSE
    /\ UNCHANGED <<isPanLockActive, hoveredAnnotation, currentAnnotationsData,
                   selectedAnnotationIndex, menuOpen, zoomVars, dotVars, loadVars, now>>

Animate ==
    /\ frameDue
    /\ LET r == TweenStep(viewer, camMove, now)
           v == PanLockPass(r.viewer, isPanLockActive)
       IN  /\ viewer' = v
           /\ camMove' = r.camMove
           /\ currentAnnotations' =
                  IF v.avail
                  THEN [k \in DOMAIN currentAnnotations |->
                            AnimateAnnotation(currentAnnotations[k])]
                  ELSE currentAnnotations
    /\ frameDue' = FALSE
    /\ UNCHANGED <<isPanLockActive, hoveredAnnotation, currentAnnotationsData,
                   selectedAnnotationIndex, menuOpen, zoomVars, dotVars, loadVars, now>>

\* time passes; the next animation frame becomes due
Elapse ==
    /\ now + TimeStep <= MaxTime
    /\ now' = now + TimeStep
    /\ frameDue' = TRUE
    /\ UNCHANGED <<viewer, isPanLockActive, annoVars, camMove, zoomVars, dotVars, loadVars>>

\* requestAnimationFrame(animate): the browser schedules the next frame; frames
\* follow one another faster than the clock of the model advances
NextFrame ==
    /\ ~frameDue
    /\ frameDue' = TRUE
    /\ UNCHANGED <<viewer, isPanLockActive, annoVars, camMove, zoomVars, dotVars, loadVars,
                   now>>

-----------------------------------------------------------------------------
(* loadStage(index) *)

\* a group of a list that addAnnotations replaced stays referenced by hoveredAnnotation
StaleHover(h) == IF h = 0 THEN 0 ELSE -1

\* createMovableDot(): a new dot, visible as the dev overlay is
CreateMovableDot == [exists |-> TRUE, visible |-> devOverlayVisible, position |-> <<0, 0, 0>>]

\* (a slip: loadStage without its re-entrancy guard)
LoadStageUnguarded(index) ==
    /\ loadIndex # 0 \/ index = 1
    /\ \/ /\ viewer' = NewViewer(constructionStages[index])
          /\ isLoading' = TRUE
          /\ loadPc' = "addSplatScene"
       \/ /\ viewer' = [viewer EXCEPT !.avail = FALSE]
          /\ isLoading' = FALSE
          /\ loadPc' = "idle"
    /\ loadIndex' = index
    /\ UNCHANGED <<isPanLockActive, annoVars, camMove, zoomVars, dotVars, clockVars>>

\* the call is accepted: the old viewer is disposed and the new one constructed,
\* then loadStage waits for the splat scene.  When the constructor throws, the
\* catch / finally blocks run with "viewer" still the disposed one (no camera).
LoadStage(index) ==
    /\ ~isLoading
    /\ loadIndex # 0 \/ index = 1          \* init() loads the first stage before the timeline can be used
    /\ \/ /\ viewer' = NewViewer(constructionStages[index])
          /\ isLoading' = TRUE
          /\ loadPc' = "addSplatScene"
       \/ /\ viewer' = [viewer EXCEPT !.avail = FALSE]
          /\ isLoading' = FALSE
          /\ loadPc' = "idle"
    /\ loadIndex' = index
    /\ UNCHANGED <<isPanLockActive, annoVars, camMove, zoomVars, dotVars, clockVars>>

\* "if (isLoading) return;"
LoadStageRejected(index) ==
    /\ isLoading
    /\ UNCHANGED vars

\* the distance bounds loadStage writes after the splat scene is loaded
StageZoom(v, stage) ==
    IF stage.hasZoom
    THEN [v EXCEPT !.minDistance = stage.minZoom, !.maxDistance = stage.maxZoom]
    ELSE IF zoomLockEnabled
    THEN [v EXCEPT !.minDistance = zoomMinDistance, !.maxDistance = zoomMaxDistance]
    ELSE v

\* (a slip: addAnnotations does not empty the annotation list)
SplatSceneLoadedKeepsAnnotations ==
    /\ loadPc = "addSplatScene"
    /\ LET stage == constructionStages[loadIndex]
       IN  /\ isPanLockActive' = stage.panLock
           /\ viewer' = StageZoom([viewer EXCEPT !.maxPolarAngle =
                                       IF stage.rotationLock THEN "PI/2" ELSE "PI"], stage)
           /\ IF stage.hasAnnotations
              THEN /\ loadPc' = "addAnnotations"
                   /\ UNCHANGED <<isLoading, movableDot>>
              ELSE /\ loadPc' = "idle"
                   /\ isLoading' = FALSE
                   /\ movableDot' = CreateMovableDot
    /\ UNCHANGED <<currentAnnotations, hoveredAnnotation, currentAnnotationsData,
                   selectedAnnotationIndex, menuOpen, camMove, zoomVars, devOverlayVisible,
                   isDraggingDot, dragPlane, loadIndex, clockVars>>

\* addSplatScene resolved: pan / rotation / zoom locks are applied and
\* addAnnotations clears the scene; without an annotationsUrl the load finishes
\* here, otherwise it waits for the annotation file
SplatSceneLoaded ==
    /\ loadPc = "addSplatScene"
    /\ LET stage == constructionStages[loadIndex]
       IN  /\ isPanLockActive' = stage.panLock
           /\ viewer' = StageZoom([viewer EXCEPT !.maxPolarAngle =
                                       IF stage.rotationLock THEN "PI/2" ELSE "PI"], stage)
           /\ currentAnnotations' = << >>
           /\ hoveredAnnotation' = StaleHover(hoveredAnnotation)
           /\ IF stage.hasAnnotations
              THEN /\ loadPc' = "addAnnotations"
                   /\ UNCHANGED <<isLoading, movableDot>>
              ELSE /\ loadPc' = "idle"
                   /\ isLoading' = FALSE
                   /\ movableDot' = CreateMovableDot
    /\ UNCHANGED <<currentAnnotationsData, selectedAnnotationIndex, menuOpen, camMove,
                   zoomVars, devOverlayVisible, isDraggingDot, dragPlane, loadIndex,
                   clockVars>>

\* (a slip: the failure path leaves the in-flight guard set)
SplatSceneFailedKeepsGuard ==
    /\ loadPc = "addSplatScene"
    /\ loadPc' = "idle"
    /\ UNCHANGED <<viewer, isPanLockActive, annoVars, camMove, zoomVars, dotVars,
                   isLoading, loadIndex, clockVars>>

\* addSplatScene rejected: catch / finally
SplatSceneFailed ==
    /\ loadPc = "addSplatScene"
    /\ loadPc' = "idle"
    /\ isLoading' = FALSE
    /\ UNCHANGED <<viewer, isPanLockActive, annoVars, camMove, zoomVars, dotVars,
                   loadIndex, clockVars>>

\* the annotation file arrived (ok) or its fetch failed (~ok); the load finishes
AnnotationsFetched(ok) ==
    /\ loadPc = "addAnnotations"
    /\ LET stageAnnotations == constructionStages[loadIndex].annotations
       IN  IF ok
           THEN /\ currentAnnotations' = [k \in DOMAIN stageAnnotations |-> NewAnnotation]
                /\ currentAnnotationsData' = stageAnnotations
           ELSE UNCHANGED <<currentAnnotations, currentAnnotationsData>>
    /\ movableDot' = CreateMovableDot
    /\ loadPc' = "idle"
    /\ isLoading' = FALSE
    /\ UNCHANGED <<viewer, isPanLockActive, hoveredAnnotation, selectedAnnotationIndex,
                   menuOpen, camMove, zoomVars, devOverlayVisible, isDraggingDot, dragPlane,
                   loadIndex, clockVars>>

-----------------------------------------------------------------------------
(* Pointer events on the viewer container *)

\* onDotPointerMove(event): the dot after a pointermove whose ray runs along dir
DotAfterMove(dir) ==
    IF isDraggingDot /\ viewer.avail /\ movableDot.exists
    THEN LET r == IntersectPlane(viewer.position, dir, dragPlane)
         IN  IF r.hit THEN [movableDot EXCEPT !.position = r.point] ELSE movableDot
    ELSE movableDot

\* the dots a pointermove can leave (rays hitting within the scene)
DotMoves == { d \in { DotAfterMove(dir) : dir \in RayDirs } : InScene(d.position) }

\* (a slip: the pointer-move takes a new plane through the dot, facing the camera)
OnDotPointerMoveNewPlane(dir) ==
    /\ InScene(DotAfterMove(dir).position)
    /\ IF isDraggingDot /\ viewer.avail /\ movableDot.exists
       THEN LET plane == [normal |-> CameraDirection(viewer), point |-> movableDot.position]
                r == IntersectPlane(viewer.position, dir, plane)
            IN  /\ dragPlane' = plane
                /\ movableDot' = IF r.hit THEN [movableDot EXCEPT !.position = r.point]
                                 ELSE movableDot
       ELSE UNCHANGED <<movableDot, dragPlane>>
    /\ UNCHANGED <<viewer, isPanLockActive, annoVars, camMove, zoomVars, devOverlayVisible,
                   isDraggingDot, loadVars, clockVars>>

\* a pointermove event whose hover call is throttled away: onDotPointerMove alone
OnDotPointerMove(dir) ==
    /\ InScene(DotAfterMove(dir).position)
    /\ movableDot' = DotAfterMove(dir)
    /\ UNCHANGED <<viewer, isPanLockActive, annoVars, camMove, zoomVars, devOverlayVisible,
                   isDraggingDot, dragPlane, loadVars, clockVars>>

\* the dev inputs dot-x / dot-y / dot-z: updateDotPosition()
UpdateDotPosition(pos) ==
    /\ movableDot.exists
    /\ movableDot' = [movableDot EXCEPT !.position = pos]
    /\ UNCHANGED <<viewer, isPanLockActive, annoVars, camMove, zoomVars, devOverlayVisible,
                   isDraggingDot, dragPlane, loadVars, clockVars>>

\* a pointermove event: onDotPointerMove, then onAnnotationHover(event).
\* outside: the pointer is outside the container's rectangle; hit: the
\* annotation the ray cast returns first (0 = none)
OnAnnotationHover(outside, hit) ==
    /\ hit \in 0..Len(currentAnnotations)
    /\ IF outside
       THEN /\ IF hoveredAnnotation > 0
               THEN currentAnnotations' =
                        [currentAnnotations EXCEPT ![hoveredAnnotation].scale = ScaleIdle,
                                                   ![hoveredAnnotation].opacity = OpacityIdle]
               ELSE UNCHANGED currentAnnotations
            /\ hoveredAnnotation' = 0
       ELSE IF ~viewer.avail
       THEN UNCHANGED <<currentAnnotations, hoveredAnnotation>>
       ELSE LET unhover == hoveredAnnotation # 0 /\ hoveredAnnotation # hit
                annos1 == IF unhover /\ hoveredAnnotation > 0
                          THEN [currentAnnotations EXCEPT ![hoveredAnnotation] =
                                                              SetTarget(@, IdleTier)]
                          ELSE currentAnnotations
                hovered1 == IF unhover THEN 0 ELSE hoveredAnnotation
            IN  IF hit # 0 /\ hovered1 # hit
                THEN /\ hoveredAnnotation' = hit
                     /\ currentAnnotations' = [annos1 EXCEPT ![hit] = SetTarget(@, HoveredTier)]
                ELSE /\ hoveredAnnotation' = hovered1
                     /\ currentAnnotations' = annos1
    /\ movableDot' \in DotMoves
    /\ UNCHANGED <<viewer, isPanLockActive, currentAnnotationsData, selectedAnnotationIndex,
                   menuOpen, camMove, zoomVars, devOverlayVisible, isDraggingDot, dragPlane,
                   loadVars, clockVars>>

\* (a slip: the dot test of onAnnotationPointerDown is left out)
AnnotationClaimsIgnoringDot(inStagesMenu, inButtonArea, dotHit, hit) ==
    /\ viewer.avail
    /\ ~inStagesMenu
    /\ ~inButtonArea
    /\ hit # 0

\* (a slip: the button-area test of onAnnotationPointerDown is left out)
AnnotationClaimsIgnoringZone(inStagesMenu, inButtonArea, dotHit, hit) ==
    /\ viewer.avail
    /\ ~inStagesMenu
    /\ ~(movableDot.exists /\ movableDot.visible /\ dotHit)
    /\ hit # 0

\* what onAnnotationPointerDown decides: "annotation" when it claims the event
\* for annotation hit, "pass" when it returns without stopping propagation
AnnotationClaims(inStagesMenu, inButtonArea, dotHit, hit) ==
    /\ viewer.avail
    /\ ~inStagesMenu
    /\ ~inButtonArea
    /\ ~(movableDot.exists /\ movableDot.visible /\ dotHit)
    /\ hit # 0

\* a pointerdown event: onAnnotationPointerDown, then (unless propagation was
\* stopped) onDotPointerDown.  dotHit: the ray intersects the dot's sphere
PointerDown(inStagesMenu, inButtonArea, dotHit, hit) ==
    /\ hit \in 0..Len(currentAnnotations)
    /\ dotHit => movableDot.exists
    /\ IF AnnotationClaims(inStagesMenu, inButtonArea, dotHit, hit)
       THEN LET h == HighlightAnnotation(currentAnnotations, currentAnnotationsData,
                                         camMove, viewer, hit, now)
            IN  /\ viewer' = [viewer EXCEPT !.enabled = FALSE]
                /\ menuOpen' = TRUE
                /\ selectedAnnotationIndex' = hit
                /\ currentAnnotations' = h.annotations
                /\ camMove' = h.camMove
                /\ UNCHANGED <<isDraggingDot, dragPlane>>
       ELSE IF viewer.avail /\ movableDot.exists /\ dotHit
       THEN /\ isDraggingDot' = TRUE
            /\ viewer' = [viewer EXCEPT !.enabled = FALSE]
            /\ dragPlane' = [normal |-> CameraDirection(viewer), point |-> movableDot.position]
            /\ UNCHANGED <<menuOpen, selectedAnnotationIndex, currentAnnotations, camMove>>
       ELSE UNCHANGED <<viewer, menuOpen, selectedAnnotationIndex, currentAnnotations,
                        camMove, isDraggingDot, dragPlane>>
    /\ UNCHANGED <<isPanLockActive, hoveredAnnotation, currentAnnotationsData, zoomVars,
                   devOverlayVisible, movableDot, loadVars, clockVars>>

\* onDotPointerDown runs (onAnnotationPointerDown did not stop the event) and
\* its ray hits the dot: the dot claims the event
DotClaims(inStagesMenu, inButtonArea, dotHit, hit) ==
    /\ ~AnnotationClaims(inStagesMenu, inButtonArea, dotHit, hit)
    /\ viewer.avail
    /\ movableDot.exists
    /\ dotHit

\* some listener called event.stopImmediatePropagation()
PropagationStopped(inStagesMenu, inButtonArea, dotHit, hit) ==
    \/ AnnotationClaims(inStagesMenu, inButtonArea, dotHit, hit)
    \/ DotClaims(inStagesMenu, inButtonArea, dotHit, hit)

\* (a slip: the listener re-enables the controls but leaves the drag flag)
PointerUpKeepsDrag ==
    /\ viewer' = IF viewer.avail THEN [viewer EXCEPT !.enabled = TRUE] ELSE viewer
    /\ UNCHANGED <<isPanLockActive, annoVars, camMove, zoomVars, dotVars, loadVars, clockVars>>

\* the pointerup listener
PointerUp ==
    /\ viewer' = IF viewer.avail THEN [viewer EXCEPT !.enabled = TRUE] ELSE viewer
    /\ isDraggingDot' = FALSE
    /\ UNCHANGED <<isPanLockActive, annoVars, camMove, zoomVars, devOverlayVisible,
                   movableDot, dragPlane, loadVars, clockVars>>

-----------------------------------------------------------------------------
(* The annotations menu *)

\* toggleAnnotationsMenu(true) from the menu button
OpenAnnotationsMenu ==
    /\ menuOpen' = TRUE
    /\ UNCHANGED <<viewer, isPanLockActive, currentAnnotations, hoveredAnnotation,
                   currentAnnotationsData, selectedAnnotationIndex, camMove, zoomVars,
                   dotVars, loadVars, clockVars>>

\* toggleAnnotationsMenu(false) from the close button or a click outside
CloseAnnotationsMenu ==
    /\ menuOpen' = FALSE
    /\ currentAnnotations' = ResetTargets(currentAnnotations)
    /\ selectedAnnotationIndex' = 0
    /\ UNCHANGED <<viewer, isPanLockActive, hoveredAnnotation, currentAnnotationsData,
                   camMove, zoomVars, dotVars, loadVars, clockVars>>

\* the rows populateAnnotationsMenu built, one per entry of currentAnnotationsData;
\* they can be pointed at while the panel is shown
MenuRows == IF menuOpen THEN DOMAIN currentAnnotationsData ELSE {}

\* 'mouseenter' on row index
MenuRowEnter(index) ==
    /\ index \in MenuRows
    /\ currentAnnotations' =
           IF index \in DOMAIN currentAnnotations
           THEN [currentAnnotations EXCEPT ![index] = SetTarget(@, HoveredTier)]
           ELSE currentAnnotations
    /\ UNCHANGED <<viewer, isPanLockActive, hoveredAnnotation, currentAnnotationsData,
                   selectedAnnotationIndex, menuOpen, camMove, zoomVars, dotVars,
                   loadVars, clockVars>>

\* 'mouseleave' on row index
MenuRowLeave(index) ==
    /\ index \in MenuRows
    /\ currentAnnotations' =
           IF index # selectedAnnotationIndex /\ index \in DOMAIN currentAnnotations
           THEN [currentAnnotations EXCEPT ![index] = SetTarget(@, IdleTier)]
           ELSE currentAnnotations
    /\ UNCHANGED <<viewer, isPanLockActive, hoveredAnnotation, currentAnnotationsData,
                   selectedAnnotationIndex, menuOpen, camMove, zoomVars, dotVars,
                   loadVars, clockVars>>

\* 'click' on row index: highlightAnnotation(index), then moveCameraTo from the
\* row's own data
MenuRowClick(index) ==
    /\ index \in MenuRows
    /\ LET h == HighlightAnnotation(currentAnnotations, currentAnnotationsData,
                                    camMove, viewer, index, now)
           data == currentAnnotationsData[index]
       IN  /\ selectedAnnotationIndex' = index
           /\ currentAnnotations' = h.annotations
           /\ camMove' = IF data.hasHint
                         THEN MoveCameraTo(h.camMove, viewer, data.cameraPos,
                                           data.cameraLookAt, DefaultDuration, now)
                         ELSE h.camMove
    /\ UNCHANGED <<viewer, isPanLockActive, hoveredAnnotation, currentAnnotationsData,
                   menuOpen, zoomVars, dotVars, loadVars, clockVars>>

-----------------------------------------------------------------------------
(* Zoom lock helpers and the dev button *)

\* window.setZoomLock(minDist, maxDist)
SetZoomLock(minDist, maxDist) ==
    /\ zoomLockEnabled' = TRUE
    /\ zoomMinDistance' = minDist
    /\ zoomMaxDistance' = maxDist
    /\ viewer' = IF viewer.avail
                 THEN [viewer EXCEPT !.minDistance = minDist, !.maxDistance = maxDist]
                 ELSE viewer
    /\ UNCHANGED <<isPanLockActive, annoVars, camMove, dotVars, loadVars, clockVars>>

\* window.clearZoomLock()
ClearZoomLock ==
    /\ zoomLockEnabled' = FALSE
    /\ viewer' = IF viewer.avail
                 THEN [viewer EXCEPT !.minDistance = 0, !.maxDistance = Infinity]
                 ELSE viewer
    /\ UNCHANGED <<isPanLockActive, annoVars, camMove, zoomMinDistance, zoomMaxDistance,
                   dotVars, loadVars, clockVars>>

\* the dev button toggles the overlay and the dot's visibility
DevButtonClick ==
    /\ devOverlayVisible' = ~devOverlayVisible
    /\ movableDot' = IF movableDot.exists
                     THEN [movableDot EXCEPT !.visible = ~devOverlayVisible]
                     ELSE movableDot
    /\ UNCHANGED <<viewer, isPanLockActive, annoVars, camMove, zoomVars, isDraggingDot, dragPlane,
                   loadVars, clockVars>>

-----------------------------------------------------------------------------
(* The system *)

Init ==
    /\ viewer = NoViewer
    /\ isLoading = FALSE
    /\ loadPc = "idle"
    /\ loadIndex = 0
    /\ isPanLockActive = FALSE
    /\ currentAnnotations = << >>
    /\ hoveredAnnotation = 0
    /\ currentAnnotationsData = << >>
    /\ selectedAnnotationIndex = 0
    /\ menuOpen = FALSE
    /\ camMove = NoCamMove
    /\ zoomLockEnabled = FALSE
    /\ zoomMinDistance = DefaultZoomMin
    /\ zoomMaxDistance = DefaultZoomMax
    /\ devOverlayVisible = FALSE
    /\ movableDot = [exists |-> FALSE, visible |-> FALSE, position |-> NoVec]
    /\ isDraggingDot = FALSE
    /\ dragPlane = NoPlane
    /\ now = 0
    /\ frameDue = TRUE

Next ==
    \/ \E index \in StageIndices : LoadStage(index)
    \/ \E index \in StageIndices : LoadStageRejected(index)
    \/ SplatSceneLoaded
    \/ SplatSceneFailed
    \/ \E ok \in BOOLEAN : AnnotationsFetched(ok)
    \/ \E outside \in BOOLEAN, hit \in 0..MaxAnnotations : OnAnnotationHover(outside, hit)
    \/ \E inStagesMenu, inButtonArea, dotHit \in BOOLEAN, hit \in 0..MaxAnnotations :
           PointerDown(inStagesMenu, inButtonArea, dotHit, hit)
    \/ PointerUp
    \/ \E dir \in RayDirs : OnDotPointerMove(dir)
    \/ \E pos \in DotInputs : UpdateDotPosition(pos)
    \/ OpenAnnotationsMenu
    \/ CloseAnnotationsMenu
    \/ \E index \in 1..MaxAnnotations : MenuRowEnter(index)
    \/ \E index \in 1..MaxAnnotations : MenuRowLeave(index)
    \/ \E index \in 1..MaxAnnotations : MenuRowClick(index)
    \/ \E args \in ZoomLockArgs : SetZoomLock(args[1], args[2])
    \/ ClearZoomLock
    \/ DevButtonClick
    \/ Animate
    \/ NextFrame
    \/ Elapse

\* the whole system
Spec == Init /\ [][Next]_vars

\* The annotation state machine: stage loads, canvas hover, pointer-downs whose
\* ray misses the dot, the annotations menu and the animation frame (the clock
\* stands still, so one frame is drawn).
NextTargets ==
    \/ \E index \in StageIndices : LoadStage(index)
    \/ SplatSceneLoaded
    \/ SplatSceneFailed
    \/ \E ok \in BOOLEAN : AnnotationsFetched(ok)
    \/ \E outside \in BOOLEAN, hit \in 0..MaxAnnotations : OnAnnotationHover(outside, hit)
    \/ \E inStagesMenu, inButtonArea \in BOOLEAN, hit \in 0..MaxAnnotations :
           PointerDown(inStagesMenu, inButtonArea, FALSE, hit)
    \/ OpenAnnotationsMenu
    \/ CloseAnnotationsMenu
    \/ \E index \in 1..MaxAnnotations : MenuRowEnter(index)
    \/ \E index \in 1..MaxAnnotations : MenuRowLeave(index)
    \/ \E index \in 1..MaxAnnotations : MenuRowClick(index)
    \/ Animate

SpecTargets == Init /\ [][NextTargets]_vars

\* The camera choreographer and the pan lock: stage loads, menu-row clicks
\* (the moveCameraTo requests), animation frames and the clock.
NextCamera ==
    \/ \E index \in StageIndices : LoadStage(index)
    \/ SplatSceneLoaded
    \/ SplatSceneFailed
    \/ \E ok \in BOOLEAN : AnnotationsFetched(ok)
    \/ OpenAnnotationsMenu
    \/ \E index \in 1..MaxAnnotations : MenuRowClick(index)
    \/ Animate
    \/ Elapse

SpecCamera == Init /\ [][NextCamera]_vars

\* The pointer-claim chain: stage loads, pointer-downs with every combination
\* of zones and ray hits, pointer-ups, the dev button (dot visibility) and the
\* closing of the annotations panel.
NextPointer ==
    \/ \E index \in StageIndices : LoadStage(index)
    \/ SplatSceneLoaded
    \/ SplatSceneFailed
    \/ \E ok \in BOOLEAN : AnnotationsFetched(ok)
    \/ \E inStagesMenu, inButtonArea, dotHit \in BOOLEAN, hit \in 0..MaxAnnotations :
           PointerDown(inStagesMenu, inButtonArea, dotHit, hit)
    \/ PointerUp
    \/ DevButtonClick
    \/ CloseAnnotationsMenu

SpecPointer == Init /\ [][NextPointer]_vars

\* The dot drag: stage loads whose splat scene arrives, pointer-downs on the
\* canvas (on the dot or off it), pointer-moves, pointer-ups and the dev inputs.
NextDrag ==
    \/ \E index \in StageIndices : LoadStage(index)
    \/ SplatSceneLoaded
    \/ \E ok \in BOOLEAN : AnnotationsFetched(ok)
    \/ \E dotHit \in BOOLEAN : PointerDown(FALSE, FALSE, dotHit, 0)
    \/ PointerUp
    \/ \E dir \in RayDirs : OnDotPointerMove(dir)
    \/ \E pos \in DotInputs : UpdateDotPosition(pos)

SpecDrag == Init /\ [][NextDrag]_vars

\* Orbiting between pointer-down and pointer-up: stage loads, pointer-downs on
\* the canvas, pointer-ups and the frame.
NextOrbit ==
    \/ \E index \in StageIndices : LoadStage(index)
    \/ SplatSceneLoaded
    \/ SplatSceneFailed
    \/ \E ok \in BOOLEAN : AnnotationsFetched(ok)
    \/ \E dotHit \in BOOLEAN, hit \in 0..MaxAnnotations :
           PointerDown(FALSE, FALSE, dotHit, hit)
    \/ PointerUp
    \/ Animate

SpecOrbit == Init /\ [][NextOrbit]_vars

\* The zoom lock: stage loads and the setZoomLock / clearZoomLock helpers.
NextZoom ==
    \/ \E index \in StageIndices : LoadStage(index)
    \/ \E index \in StageIndices : LoadStageRejected(index)
    \/ SplatSceneLoaded
    \/ SplatSceneFailed
    \/ \E ok \in BOOLEAN : AnnotationsFetched(ok)
    \/ \E args \in ZoomLockArgs : SetZoomLock(args[1], args[2])
    \/ ClearZoomLock

SpecZoom == Init /\ [][NextZoom]_vars

\* The annotation smoothing run to its end: stage loads, the annotations menu
\* with the pointer entering its rows (targets raised to Hovered), and the
\* animation loop, which never stops scheduling frames.
NextSettle ==
    \/ \E index \in StageIndices : LoadStage(index)
    \/ SplatSceneLoaded
    \/ SplatSceneFailed
    \/ \E ok \in BOOLEAN : AnnotationsFetched(ok)
    \/ OpenAnnotationsMenu
    \/ \E index \in 1..MaxAnnotations : MenuRowEnter(index)
    \/ Animate
    \/ NextFrame

SpecSettle ==
    /\ Init
    /\ [][NextSettle]_vars
    /\ WF_vars(Animate)
    /\ WF_vars(NextFrame)

\* The zoom-lock system with the awaited operations settling: addSplatScene
\* resolves or rejects, and the annotation fetch resolves or rejects.
SpecLoadFair ==
    /\ Init
    /\ [][NextZoom]_vars
    /\ WF_vars(SplatSceneLoaded \/ SplatSceneFailed)
    /\ WF_vars(\E ok \in BOOLEAN : AnnotationsFetched(ok))

-----------------------------------------------------------------------------
(* Properties of the annotation visual state machine *)

Tier(a) == <<a.targetScale, a.targetOpacity>>

\* C1: in every reachable state every annotation's (targetScale, targetOpacity)
\* pair is one of the three tiers Idle, Hovered, Selected.
C1_TargetsAreTiers ==
    \A k \in DOMAIN currentAnnotations :
        Tier(currentAnnotations[k]) \in {IdleTier, HoveredTier, SelectedTier}

\* a state in which the three tiers have all been used: one annotation is
\* Selected, another Hovered, and a frame has moved a live value off Idle
C1_Witness ==
    /\ \E i, j \in DOMAIN currentAnnotations :
           /\ Tier(currentAnnotations[i]) = SelectedTier
           /\ Tier(currentAnnotations[j]) = HoveredTier
           /\ currentAnnotations[j].scale # ScaleIdle
    /\ ~frameDue

\* annotation "index" is selected by a canvas click or by its menu row
SelectStep(index) ==
    \/ MenuRowClick(index)
    \/ /\ AnnotationClaims(FALSE, FALSE, FALSE, index)
       /\ PointerDown(FALSE, FALSE, FALSE, index)

SelectedSet == {k \in DOMAIN currentAnnotations : Tier(currentAnnotations[k]) = SelectedTier}

\* C2: at most one annotation has the Selected tier as its target, and selecting
\* annotation B of the active list (whatever was selected before) leaves B at
\* Selected, every other annotation at Idle and the selected index equal to B.
C2_SingleSelection ==
    /\ [](Cardinality(SelectedSet) <= 1)
    /\ [][\A b \in DOMAIN currentAnnotations :
              SelectStep(b) =>
                  /\ selectedAnnotationIndex' = b
                  /\ Tier(currentAnnotations'[b]) = SelectedTier
                  /\ \A a \in DOMAIN currentAnnotations' \ {b} :
                         Tier(currentAnnotations'[a]) = IdleTier]_vars

\* annotation 2 is selected after annotation 1 was: annotation 1's live scale
\* is the one a frame produces on the way to Selected, and its target is Idle
C2_Witness ==
    /\ Len(currentAnnotations) = 2
    /\ selectedAnnotationIndex = 2
    /\ Tier(currentAnnotations[2]) = SelectedTier
    /\ Tier(currentAnnotations[1]) = IdleTier
    /\ currentAnnotations[1].scale = Lerp(ScaleIdle, ScaleSelected)

\* C3: while annotation s is selected (target Selected), a pointer-move whose
\* ray cast hits nothing or another annotation leaves s's target at Selected.
C3_HoverExitKeepsSelected ==
    [][\A s \in DOMAIN currentAnnotations :
           ( /\ selectedAnnotationIndex = s
             /\ Tier(currentAnnotations[s]) = SelectedTier
             /\ \E hit \in (0..MaxAnnotations) \ {s} : OnAnnotationHover(FALSE, hit) )
           => Tier(currentAnnotations'[s]) = SelectedTier]_vars

\* C4: a hover entry onto the selected annotation (canvas ray cast or its
\* menu row) leaves its target at Selected.
C4_HoverOnSelectedIsNoOp ==
    [][\A s \in DOMAIN currentAnnotations :
           ( /\ selectedAnnotationIndex = s
             /\ Tier(currentAnnotations[s]) = SelectedTier
             /\ (OnAnnotationHover(FALSE, s) \/ MenuRowEnter(s)) )
           => Tier(currentAnnotations'[s]) = SelectedTier]_vars

\* C5: a pointer-move outside the viewport while a non-selected annotation h
\* is the tracked hovered one clears the hover and returns h's target to Idle.
C5_LeavingViewportResetsTarget ==
    [][\A h \in DOMAIN currentAnnotations :
           ( /\ hoveredAnnotation = h
             /\ selectedAnnotationIndex # h
             /\ \E hit \in 0..MaxAnnotations : OnAnnotationHover(TRUE, hit) )
           => /\ hoveredAnnotation' = 0
              /\ Tier(currentAnnotations'[h]) = IdleTier]_vars

-----------------------------------------------------------------------------
(* Properties of the camera choreographer and the pan lock *)

\* the pose the pan lock leaves of camera position p and look-at l
Grounded(p, l) ==
    IF isPanLockActive /\ l[2] > 0
    THEN [position |-> <<p[1], p[2] - l[2], p[3]>>, target |-> <<l[1], 0, l[3]>>]
    ELSE [position |-> p, target |-> l]

Pose(v) == [position |-> v.position, target |-> v.target]

\* C6 as stated: whatever the stage's pan lock, a frame at elapsed time 0
\* leaves the pose at the tween's start pose, and the first frame at elapsed
\* time >= duration leaves it exactly at the end pose, the tween inactive.
C6_TweenEndpointsExact ==
    [][(Animate /\ camMove.active /\ viewer.avail) =>
           /\ now = camMove.start =>
                  Pose(viewer') = [position |-> camMove.startPos,
                                   target |-> camMove.startTarget]
           /\ now - camMove.start >= camMove.duration =>
                  /\ Pose(viewer') = [position |-> camMove.targetPos,
                                      target |-> camMove.targetTarget]
                  /\ ~camMove'.active]_vars

\* C6 amended: the frame leaves the start pose (elapsed 0) or the end pose
\* (elapsed >= duration, tween then inactive) as the pan lock grounds it:
\* unchanged when the pan lock is off or the look-at's y is <= 0, otherwise
\* with the look-at's y subtracted from both the camera's and the target's y.
C6_TweenEndpointsUpToPanLock ==
    [][(Animate /\ camMove.active /\ viewer.avail) =>
           /\ now = camMove.start =>
                  Pose(viewer') = Grounded(camMove.startPos, camMove.startTarget)
           /\ now - camMove.start >= camMove.duration =>
                  /\ Pose(viewer') = Grounded(camMove.targetPos, camMove.targetTarget)
                  /\ ~camMove'.active]_vars

\* a tween has run to its end and the camera stands exactly on its end pose
C6_Witness ==
    /\ viewer.avail
    /\ ~camMove.active
    /\ now - camMove.start >= camMove.duration
    /\ camMove.startPos # camMove.targetPos
    /\ camMove.startTarget # camMove.targetTarget
    /\ Pose(viewer) = [position |-> camMove.targetPos, target |-> camMove.targetTarget]

\* a moveCameraTo request: the click of a menu row whose data carries a camera hint
RequestStep(index) ==
    /\ MenuRowClick(index)
    /\ currentAnnotationsData[index].hasHint
    /\ viewer.avail

\* C7: one tween at most.  A request replaces the tween, in flight or not, by
\* one from the camera's present pose to the requested pose, starting now; and
\* no other step changes the tween, except that a frame may switch it off: no
\* earlier end pose is kept, queued or restored.
C7_LastRequestWins ==
    [][/\ \A index \in 1..MaxAnnotations :
              RequestStep(index) =>
                  camMove' = [active |-> TRUE, start |-> now, duration |-> DefaultDuration,
                              startPos |-> viewer.position, startTarget |-> viewer.target,
                              targetPos |-> currentAnnotationsData[index].cameraPos,
                              targetTarget |-> currentAnnotationsData[index].cameraLookAt]
       /\ (~ \E index \in 1..MaxAnnotations : RequestStep(index)) =>
              \/ camMove' = camMove
              \/ Animate /\ camMove.active /\ camMove' = [camMove EXCEPT !.active = FALSE]]_vars

\* a request has just replaced a tween in flight: the new tween starts at the
\* pose half a frame period into the move from stage 1's initial position to
\* the first annotation's camera position, and ends at the second annotation's
C7_Witness ==
    /\ camMove.active
    /\ camMove.start = now
    /\ now > 0
    /\ camMove.targetPos = AnnotationsA[2].cameraPos
    /\ camMove.startPos =
           LerpVectors(constructionStages[1].initialCameraPosition, AnnotationsA[1].cameraPos,
                       Smoothstep(TweenT(TimeStep, DefaultDuration)))
    /\ camMove.startPos # constructionStages[1].initialCameraPosition
    /\ camMove.startPos # AnnotationsA[1].cameraPos

\* C8: one constraint pass with the pan lock on and target y = d > 0 leaves
\* target y = 0 and camera y lowered by d, x and z and the camera-to-target
\* offset unchanged; with target y <= 0 or the pan lock off it changes nothing.
\* (The pass sees the pose the camera move step of the same frame wrote.)
C8_PanLockPass ==
    [][Animate =>
           LET seen == TweenStep(viewer, camMove, now).viewer
               d == seen.target[2]
           IN  IF isPanLockActive /\ seen.avail /\ d > 0
               THEN /\ viewer'.target = <<seen.target[1], 0, seen.target[3]>>
                    /\ viewer'.position = <<seen.position[1], seen.position[2] - d,
                                            seen.position[3]>>
                    /\ \A k \in 1..3 : viewer'.position[k] - viewer'.target[k]
                                           = seen.position[k] - seen.target[k]
               ELSE Pose(viewer') = Pose(seen)]_vars

\* stage 3 (pan lock on, initial look-at y > 0) after its first frame: the
\* target is on the ground and the camera was lowered by the same amount
C8_Witness ==
    LET stage == constructionStages[3]
    IN  /\ loadIndex = 3
        /\ isPanLockActive
        /\ stage.initialCameraLookAt[2] > 0
        /\ viewer.target = <<stage.initialCameraLookAt[1], 0, stage.initialCameraLookAt[3]>>
        /\ viewer.position = <<stage.initialCameraPosition[1],
                               stage.initialCameraPosition[2] - stage.initialCameraLookAt[2],
                               stage.initialCameraPosition[3]>>

-----------------------------------------------------------------------------
(* Properties of the zoom lock *)

\* the live orbit-control distance bounds
Bounds(v) == <<v.minDistance, v.maxDistance>>

\* the bounds the precedence rule gives a stage: its own range, else the
\* fallback range when one is set (enabled, lo, hi), else unrestricted
PrecedenceBounds(stage, enabled, lo, hi) ==
    IF stage.hasZoom THEN <<stage.minZoom, stage.maxZoom>>
    ELSE IF enabled THEN <<lo, hi>>
    ELSE <<0, Infinity>>

\* a stage load finishes without an exception
LoadSucceeds ==
    /\ isLoading
    /\ ~isLoading'
    /\ SplatSceneLoaded \/ \E ok \in BOOLEAN : AnnotationsFetched(ok)

\* a runtime call of window.setZoomLock or window.clearZoomLock
ZoomCall ==
    \/ \E args \in ZoomLockArgs : SetZoomLock(args[1], args[2])
    \/ ClearZoomLock

\* C9 as stated: when a stage load succeeds, the distance bounds are the
\* stage's own range if it defines one, otherwise the fallback range if one is
\* set at that moment, otherwise (0, infinity).
C9_LoadAppliesPrecedence ==
    [][LoadSucceeds =>
           Bounds(viewer') = PrecedenceBounds(constructionStages[loadIndex], zoomLockEnabled',
                                              zoomMinDistance', zoomMaxDistance')]_vars

\* C10 as stated: with a loaded stage active, a setZoomLock / clearZoomLock
\* call leaves the bounds at the stage's range when the stage defines one, and
\* rewrites them (to the new fallback, or to (0, infinity)) when it defines none.
C10_ZoomCallRespectsStageRange ==
    [][(ZoomCall /\ viewer.avail /\ ~isLoading /\ loadIndex # 0) =>
           LET stage == constructionStages[loadIndex]
           IN  IF stage.hasZoom
               THEN Bounds(viewer) = <<stage.minZoom, stage.maxZoom>>
                        => Bounds(viewer') = Bounds(viewer)
               ELSE Bounds(viewer') = PrecedenceBounds(stage, zoomLockEnabled',
                                                       zoomMinDistance', zoomMaxDistance')]_vars

-----------------------------------------------------------------------------
(* Properties of the pointer-claim chain *)

\* C11: a pointer-down outside the reserved zone whose ray (cast by an
\* available camera) hits both the visible dot and an annotation begins a drag
\* and disables orbiting, and leaves the selected index, every annotation, the
\* annotations panel and the camera tween as they were.
C11_MarkerWins ==
    [][\A inStagesMenu \in BOOLEAN, hit \in 1..MaxAnnotations :
           (/\ PointerDown(inStagesMenu, FALSE, TRUE, hit)
            /\ viewer.avail
            /\ movableDot.visible) =>
               /\ isDraggingDot'
               /\ ~viewer'.enabled
               /\ PropagationStopped(inStagesMenu, FALSE, TRUE, hit)
               /\ UNCHANGED <<selectedAnnotationIndex, currentAnnotations, menuOpen,
                              camMove>>]_vars

\* a drag of the visible dot has begun with annotations on the scene, none of
\* them selected and the panel closed
C11_Witness ==
    /\ isDraggingDot
    /\ viewer.avail
    /\ ~viewer.enabled
    /\ movableDot.exists
    /\ movableDot.visible
    /\ Len(currentAnnotations) > 0
    /\ selectedAnnotationIndex = 0
    /\ ~menuOpen
    /\ ~camMove.active

\* C12: a pointer-down inside the reserved top-right zone leaves the selected
\* index, every annotation's targets, the annotations panel and the camera
\* tween unchanged, whatever the rays hit.
C12_ReservedZoneNeverSelects ==
    [][\A inStagesMenu, dotHit \in BOOLEAN, hit \in 0..MaxAnnotations :
           PointerDown(inStagesMenu, TRUE, dotHit, hit) =>
               UNCHANGED <<selectedAnnotationIndex, currentAnnotations, menuOpen,
                           camMove>>]_vars

\* annotations are on the scene under an available camera, nothing is selected,
\* the panel is closed and no tween runs: a pointer-down in the zone over an
\* annotation can happen and would show
C12_Witness ==
    /\ viewer.avail
    /\ ~isLoading
    /\ Len(currentAnnotations) = MaxAnnotations
    /\ selectedAnnotationIndex = 0
    /\ ~menuOpen
    /\ ~camMove.active
    /\ ~isDraggingDot

\* C13 as stated: a pointer-down inside the reserved zone starts no drag,
\* leaves orbiting as it was and stops no propagation, even with the dot
\* under the pointer.
C13_ReservedZoneUnclaimed ==
    [][\A inStagesMenu, dotHit \in BOOLEAN, hit \in 0..MaxAnnotations :
           PointerDown(inStagesMenu, TRUE, dotHit, hit) =>
               /\ isDraggingDot' = isDraggingDot
               /\ viewer'.enabled = viewer.enabled
               /\ ~PropagationStopped(inStagesMenu, TRUE, dotHit, hit)]_vars

\* C14 as stated: a pointer-down makes the drag flag true only when the dot
\* is visible.
C14_DragOnlyWhenVisible ==
    [][\A inStagesMenu, inButtonArea, dotHit \in BOOLEAN, hit \in 0..MaxAnnotations :
           (/\ PointerDown(inStagesMenu, inButtonArea, dotHit, hit)
            /\ ~isDraggingDot
            /\ isDraggingDot') =>
               movableDot.exists /\ movableDot.visible]_vars

\* C15: after a pointer-up the drag flag is false and, when the controls
\* exist, orbiting is enabled.
C15_PointerUpReleases ==
    [][PointerUp => /\ ~isDraggingDot'
                    /\ viewer'.avail => viewer'.enabled]_vars

\* an annotation was selected by a pointer-down on the canvas (which disabled
\* orbiting) and the pointer has been released: orbiting is enabled again
C15_Witness ==
    /\ ~isLoading
    /\ viewer.avail
    /\ viewer.enabled
    /\ ~isDraggingDot
    /\ menuOpen
    /\ selectedAnnotationIndex \in DOMAIN currentAnnotations
    /\ Tier(currentAnnotations[selectedAnnotationIndex]) = SelectedTier

\* C18: a pointer-down claimed by annotation i makes i the selected index,
\* puts i's target at the Selected tier, opens the panel, disables orbiting,
\* stops propagation; with a camera hint the tween is active and ends at the
\* hint's cameraPos and cameraLookAt, without one the tween is unchanged.
C18_AnnotationClaim ==
    [][\A inStagesMenu, inButtonArea, dotHit \in BOOLEAN, hit \in 1..MaxAnnotations :
           (/\ PointerDown(inStagesMenu, inButtonArea, dotHit, hit)
            /\ AnnotationClaims(inStagesMenu, inButtonArea, dotHit, hit)) =>
               /\ selectedAnnotationIndex' = hit
               /\ Tier(currentAnnotations'[hit]) = <<ScaleSelected, OpacitySelected>>
               /\ menuOpen'
               /\ ~viewer'.enabled
               /\ PropagationStopped(inStagesMenu, inButtonArea, dotHit, hit)
               /\ IF currentAnnotationsData[hit].hasHint
                  THEN /\ camMove'.active
                       /\ camMove'.targetPos = currentAnnotationsData[hit].cameraPos
                       /\ camMove'.targetTarget = currentAnnotationsData[hit].cameraLookAt
                  ELSE camMove' = camMove]_vars

\* the first annotation of stage 1 was clicked on the canvas: selected, panel
\* open, orbiting off, tween running to position (0,0,5) and look-at (1,0,0)
C18_Witness ==
    /\ selectedAnnotationIndex = 1
    /\ Len(currentAnnotations) >= 1
    /\ currentAnnotations[1].targetOpacity = OpacitySelected
    /\ menuOpen
    /\ viewer.avail
    /\ ~viewer.enabled
    /\ ~isDraggingDot
    /\ camMove.active
    /\ camMove.targetPos = <<0, 0, 5>>
    /\ camMove.targetTarget = <<1, 0, 0>>

-----------------------------------------------------------------------------
(* Properties of the stage loader *)

\* a step of loadStage: the call, or one of its continuations after an await
LoaderStep ==
    \/ \E index \in StageIndices : LoadStage(index)
    \/ SplatSceneLoaded
    \/ SplatSceneFailed
    \/ \E ok \in BOOLEAN : AnnotationsFetched(ok)

\* C16: while a load is in flight a further loadStage call changes nothing,
\* and no step starts another load: the index being loaded stays the same and
\* the load's position moves only by the in-flight load's own continuations
\* (never back to its start).
C16_ConcurrentLoadRejected ==
    [][isLoading =>
           /\ \A index \in StageIndices : LoadStageRejected(index) => UNCHANGED vars
           /\ loadIndex' = loadIndex
           /\ loadPc' # loadPc =>
                  SplatSceneLoaded \/ SplatSceneFailed \/ \E ok \in BOOLEAN : AnnotationsFetched(ok)]_vars

\* stage 3 is being loaded over a loaded stage 1 and waits for its annotation
\* file: a second loadStage call made now is a concurrent one
C16_Witness ==
    /\ isLoading
    /\ loadPc = "addAnnotations"
    /\ loadIndex = 3
    /\ currentAnnotationsData = AnnotationsA

\* the scene: the viewer with its camera pose and orbit constraints, the
\* annotation set and the pan-lock flag
Scene == <<viewer, currentAnnotations, isPanLockActive>>

\* a loaded stage with its annotation set is on display
PreviousSceneShown == viewer.avail /\ Len(currentAnnotations) > 0

\* C17 as stated: with a loaded stage on display, every step of loadStage
\* that does not complete a successful load (the call itself, the wait for the
\* annotation file, a failure) leaves the previous scene as it was.
C17_PreviousSceneKept ==
    [][(PreviousSceneShown /\ LoaderStep /\ ~LoadSucceeds) => Scene' = Scene]_vars

-----------------------------------------------------------------------------
(* Further properties of the camera choreographer and the annotation smoothing *)

\* C19: a moveCameraTo request made while the viewer, its camera or its
\* controls is unavailable leaves every field of the tween unchanged.
C19_MoveCameraNoViewerNoOp ==
    [][\A index \in 1..MaxAnnotations :
           (/\ MenuRowClick(index)
            /\ currentAnnotationsData[index].hasHint
            /\ ~viewer.avail) => camMove' = camMove]_vars

\* the row of the second annotation (which has a camera hint) was clicked with
\* the viewer unavailable: it is selected, and the tween is still the initial,
\* inactive one
C19_Witness ==
    /\ ~viewer.avail
    /\ currentAnnotationsData = AnnotationsA
    /\ selectedAnnotationIndex = 2
    /\ camMove = NoCamMove
    /\ ~camMove.active

\* new lies between old and target (ends included)
Between(old, new, target) ==
    \/ old <= new /\ new <= target
    \/ target <= new /\ new <= old

\* C20 as stated: in every step, an annotation that stays on the scene and
\* whose live scale or fill opacity changes gets a value between the old
\* value and its target; no step moves a live value away from the target.
C20_LiveValuesApproachTarget ==
    [][\A k \in DOMAIN currentAnnotations \cap DOMAIN currentAnnotations' :
           LET old == currentAnnotations[k]
               new == currentAnnotations'[k]
           IN  /\ new.scale # old.scale => Between(old.scale, new.scale, old.targetScale)
               /\ new.opacity # old.opacity =>
                      Between(old.opacity, new.opacity, old.targetOpacity)]_vars

-----------------------------------------------------------------------------
(* Properties of the annotation set across stage loads *)

\* a stage load completes with the stage's annotation file read (or with no
\* annotation source to read)
LoadCompletes ==
    /\ isLoading
    /\ ~isLoading'
    /\ SplatSceneLoaded \/ AnnotationsFetched(TRUE)

\* C21 as stated: when a stage load completes, the active list is exactly the
\* new stage's annotations, each at the Idle tier with the idle live values,
\* and the tracked hovered annotation is absent or a member of that list.
C21_NoCarryover ==
    [][LoadCompletes =>
           LET stage == constructionStages[loadIndex]
           IN  /\ Len(currentAnnotations') = Len(stage.annotations)
               /\ \A k \in DOMAIN currentAnnotations' :
                      /\ Tier(currentAnnotations'[k]) = <<ScaleIdle, OpacityIdle>>
                      /\ currentAnnotations'[k].scale = ScaleIdle
                      /\ currentAnnotations'[k].opacity = OpacityIdle
               /\ hoveredAnnotation' \in {0} \cup DOMAIN currentAnnotations']_vars

\* C22 as stated: when a stage load completes no annotation is selected and
\* every annotation's target is Idle.
C22_ReloadClearsSelection ==
    [][LoadCompletes =>
           /\ selectedAnnotationIndex' = 0
           /\ \A k \in DOMAIN currentAnnotations' :
                  Tier(currentAnnotations'[k]) = <<ScaleIdle, OpacityIdle>>]_vars

\* C23: the load of a stage without an annotation source finishes when its
\* splat scene is loaded (guard released, nothing left to wait for) and
\* leaves the active annotation list empty.
C23_NoSourceEmptySet ==
    [][(SplatSceneLoaded /\ ~constructionStages[loadIndex].hasAnnotations) =>
           /\ ~isLoading'
           /\ loadPc' = "idle"
           /\ currentAnnotations' = << >>]_vars

\* stage 2 (no annotation source, the only stage without pan lock) has been
\* loaded after stage 1, whose annotation file had been read: the list is empty
C23_Witness ==
    /\ ~isLoading
    /\ loadIndex = 2
    /\ ~constructionStages[2].hasAnnotations
    /\ ~isPanLockActive
    /\ viewer.avail
    /\ currentAnnotationsData = AnnotationsA
    /\ currentAnnotations = << >>

\* C29 as stated: whenever no load is in flight, the menu's annotation data
\* and the active annotation list have the same length.
C29_MenuDataMatchesList ==
    ~isLoading => Len(currentAnnotationsData) = Len(currentAnnotations)

-----------------------------------------------------------------------------
(* Properties of the frame tick across tweens and stage loads *)

\* C24: at the end of every frame tick with the pan lock on and camera and
\* controls available, the orbit target's y is <= 0.
C24_TargetGroundedAfterTick ==
    [][(Animate /\ isPanLockActive /\ viewer.avail) => viewer'.target[2] <= 0]_vars

\* the frame of the present instant has run with the pan lock on while a tween
\* is under way whose interpolated look-at, at this instant, has y > 0: the
\* target stands on the ground all the same
C24_Witness ==
    /\ ~frameDue
    /\ isPanLockActive
    /\ viewer.avail
    /\ camMove.active
    /\ now > camMove.start
    /\ LerpVectors(camMove.startTarget, camMove.targetTarget,
                   Smoothstep(TweenT(now - camMove.start, camMove.duration)))[2] > 0
    /\ viewer.target[2] = 0

\* the viewer stands at the initial pose of the stage being shown
AtInitialPose ==
    /\ loadIndex # 0
    /\ viewer.avail
    /\ viewer.position = constructionStages[loadIndex].initialCameraPosition
    /\ viewer.target = constructionStages[loadIndex].initialCameraLookAt

\* C30 as stated: a frame tick that finds the viewer at its stage's initial
\* pose and a tween active that does not start from that pose (so it was not
\* requested on this viewer at this pose) leaves the pose as the stage set
\* it, up to the pan lock.
C30_StaleTweenIgnored ==
    [][(/\ Animate
        /\ AtInitialPose
        /\ camMove.active
        /\ <<camMove.startPos, camMove.startTarget>> # <<viewer.position, viewer.target>>) =>
           Pose(viewer') = Grounded(viewer.position, viewer.target)]_vars

\* C28: provided the awaited operations settle, a load in flight is followed
\* by a state with the guard released, on success and on failure; and the
\* guard is set only while a load is in flight, so a call made after a load
\* has finished is accepted.
C28_GuardReleased ==
    /\ isLoading ~> ~isLoading
    /\ [](loadPc = "idle" => ~isLoading)

\* the load of stage 2 failed in addSplatScene (the pan lock is still the
\* previous stage's) and the guard is released
C28_Witness ==
    /\ ~isLoading
    /\ loadPc = "idle"
    /\ loadIndex = 2
    /\ viewer.avail
    /\ isPanLockActive
    /\ isPanLockActive # constructionStages[2].panLock

-----------------------------------------------------------------------------
(* Properties of the annotation smoothing *)

\* the value one frame gives a live value: a tenth of the way to the target
\* when more than epsilon away, the same value otherwise
Smoothed(current, target) ==
    IF Abs(current - target) > Epsilon
    THEN current + Round(target - current, LerpDen)
    ELSE current

\* every annotation's live scale and opacity are within epsilon of the targets
AllSettled ==
    \A k \in DOMAIN currentAnnotations :
        /\ Abs(currentAnnotations[k].scale - currentAnnotations[k].targetScale) <= Epsilon
        /\ Abs(currentAnnotations[k].opacity - currentAnnotations[k].targetOpacity) <= Epsilon

\* a step that keeps the annotation list and every target
TargetsKept ==
    /\ DOMAIN currentAnnotations' = DOMAIN currentAnnotations
    /\ \A k \in DOMAIN currentAnnotations : Tier(currentAnnotations'[k]) = Tier(currentAnnotations[k])

\* a step that changes no live value
LiveValuesKept ==
    /\ DOMAIN currentAnnotations' = DOMAIN currentAnnotations
    /\ \A k \in DOMAIN currentAnnotations :
           /\ currentAnnotations'[k].scale = currentAnnotations[k].scale
           /\ currentAnnotations'[k].opacity = currentAnnotations[k].opacity

-----------------------------------------------------------------------------
(* Properties of the dot drag *)

\* C25 as stated: a frame tick that runs while the dot is being dragged (after
\* the pointer-down the dot claimed, before the next pointer-up) finds camera
\* orbiting disabled.
C25_NoOrbitWhileClaimed ==
    [][(Animate /\ isDraggingDot /\ viewer.avail) => ~viewer.enabled]_vars

Cross(a, b) ==
    <<a[2] * b[3] - a[3] * b[2], a[3] * b[1] - a[1] * b[3], a[1] * b[2] - a[2] * b[1]>>

\* p lies on the plane, up to the rounding of its coordinates
OnPlane(p, plane) ==
    2 * Abs(DotProduct(plane.normal, Sub(p, plane.point)))
        <= Abs(plane.normal[1]) + Abs(plane.normal[2]) + Abs(plane.normal[3])

\* p lies on the line through origin along dir, up to the rounding of its coordinates
OnRay(p, origin, dir) ==
    LET c == Cross(Sub(p, origin), dir)
    IN  /\ 2 * Abs(c[1]) <= Abs(dir[2]) + Abs(dir[3])
        /\ 2 * Abs(c[2]) <= Abs(dir[1]) + Abs(dir[3])
        /\ 2 * Abs(c[3]) <= Abs(dir[1]) + Abs(dir[2])

\* C27: the drag plane is captured by the pointer-down the dot claims (facing
\* the camera, through the dot) and changed by no other step; a pointer-move
\* during a drag (camera available) puts the dot on the intersection of its ray
\* with that plane - a point of the plane and of the ray - and leaves the dot
\* where it is when the ray does not meet the plane or no drag is active.
C27_DragFollowsCapturedPlane ==
    [][/\ \A dotHit \in BOOLEAN, hit \in 0..MaxAnnotations :
              (PointerDown(FALSE, FALSE, dotHit, hit) /\ DotClaims(FALSE, FALSE, dotHit, hit)) =>
                  dragPlane' = [normal |-> Sub(viewer.target, viewer.position),
                                point |-> movableDot.position]
       /\ dragPlane' # dragPlane =>
              \E dotHit \in BOOLEAN, hit \in 0..MaxAnnotations :
                  PointerDown(FALSE, FALSE, dotHit, hit) /\ DotClaims(FALSE, FALSE, dotHit, hit)
       /\ \A dir \in RayDirs :
              OnDotPointerMove(dir) =>
                  LET r == IntersectPlane(viewer.position, dir, dragPlane)
                  IN  IF isDraggingDot /\ viewer.avail /\ movableDot.exists /\ r.hit
                      THEN /\ movableDot'.position = r.point
                           /\ OnPlane(movableDot'.position, dragPlane)
                           /\ OnRay(movableDot'.position, viewer.position, dir)
                      ELSE movableDot' = movableDot]_vars

\* a drag is under way and a pointer-move has taken the dot off the point it
\* was picked up at, to a point of the captured plane that neither
\* createMovableDot nor the dev inputs put it at
C27_Witness ==
    /\ isDraggingDot
    /\ viewer.avail
    /\ movableDot.exists
    /\ movableDot.position # dragPlane.point
    /\ movableDot.position \notin ({NoVec} \cup DotInputs)
    /\ OnPlane(movableDot.position, dragPlane)

=============================================================================
